---- MODULE Spec2Model ----
(***************************************************************************)
(* Model of pallets/evm-accounts (src/pallets/evm-accounts/src/lib.rs):    *)
(* the two storage maps Accounts / EvmAddresses, the claim_account         *)
(* extrinsic with its EIP-712 signature check and balance merge, and the   *)
(* on_killed_account hook.                                                 *)
(*                                                                         *)
(* Cryptography is modelled symbolically: keccak_256 is an injective       *)
(* constructor, a signature is the pair (secret key, signed digest), and   *)
(* secp256k1 recovery returns the signer's public key when the digest is   *)
(* the signed one and some other, unowned public key when it is not        *)
(* (recovery of a well-formed signature does not fail on a wrong digest).  *)
(***************************************************************************)
EXTENDS Integers, Sequences, FiniteSets, TLC

\* ------------------------------------------------------------------ bounds

\* free balance every user account starts with
InitialBalance == 1

\* ---------------------------------------------------------------- universe

\* secp256k1 secret keys held by signers
Keys == {1, 2}

\* native account ids of ordinary users
Users == {<<"user", 1>>, <<"user", 2>>}

\* chain ids (T::ChainId) and genesis block hashes a deployment can have;
\* 1 and 257 agree on their low byte
ChainIds == {1, 257}
GenesisHashes == {<<"genesis", 0>>, <<"genesis", 1>>}
Deployments == [chain_id : ChainIds, genesis_hash : GenesisHashes]

None == <<"None">>
Some(x) == <<"Some", x>>

\* ------------------------------------------------- hashing and recovery

\* sp_io::hashing::keccak_256 / keccak256!: an injective symbolic digest
keccak_256(bytes) == <<"keccak", bytes>>

\* width in bytes of the word to_bytes produces
WordBytes == 32

RECURSIVE BigEndian(_, _)
\* the n lowest base-256 digits of value, most significant first
BigEndian(value, n) ==
    IF n = 0 THEN <<>>
    ELSE Append(BigEndian(value \div 256, n - 1), value % 256)

\* peaq_primitives_xcm::to_bytes: the 32-byte big-endian word of a u64
to_bytes(value) == BigEndian(value, WordBytes)

\* parity_scale_codec::Encode of an AccountId32: its 32 bytes, unframed
encode(who) == <<"AccountId32", who>>

\* libsecp256k1::PublicKey::from_secret_key
eth_public(secret) == <<"pub", secret>>

\* the H160 made of the low 20 bytes of keccak_256(pubkey)
H160_of_pubkey(pubkey) == <<"H160", pubkey>>

\* the Ethereum address of a secret key
eth_address(secret) == H160_of_pubkey(eth_public(secret))

BadSig == <<"malformed">>

\* libsecp256k1::sign: a 65-byte signature of msg_hash under secret
sign(secret, msg_hash) == <<"sig", secret, msg_hash>>

\* sp_io::crypto::secp256k1_ecdsa_recover: the public key under which sig
\* verifies for msg_hash.  For the digest that was signed it is the signer's
\* key; for any other digest it is a key nobody holds.
secp256k1_ecdsa_recover(sig, msg_hash) ==
    IF sig = BadSig THEN None
    ELSE IF sig[3] = msg_hash THEN Some(eth_public(sig[2]))
    ELSE Some(<<"pub", sig, msg_hash>>)

recover_signer(sig, msg_hash) ==
    LET r == secp256k1_ecdsa_recover(sig, msg_hash)
    IN  IF r = None THEN None ELSE Some(H160_of_pubkey(r[2]))

\* ---------------------------------------------------------- message builder

\* the domain separator without the chain id
evm_account_domain_separator_no_chain_id(d) ==
    keccak_256(<< keccak_256("EIP712Domain(string name,string version,uint256 chainId,bytes32 salt)"),
                  keccak_256("Peaq EVM claim"),
                  keccak_256("1"),
                  d.genesis_hash >>)

evm_account_domain_separator(d) ==
    keccak_256(<< keccak_256("EIP712Domain(string name,string version,uint256 chainId,bytes32 salt)"),
                  keccak_256("Peaq EVM claim"),
                  keccak_256("1"),
                  to_bytes(d.chain_id),
                  d.genesis_hash >>)

\* the payload hash of the type string alone, without the account
evm_account_payload_hash_no_account(who) ==
    keccak_256(<< keccak_256("Transaction(bytes substrateAddress)"),
                  keccak_256(<<"AccountId32", <<>>>>) >>)

evm_account_payload_hash(who) ==
    keccak_256(<< keccak_256("Transaction(bytes substrateAddress)"),
                  keccak_256(encode(who)) >>)

eip712_signable_message(d, who) ==
    << 25, 1, evm_account_domain_separator(d), evm_account_payload_hash(who) >>

\* the signature a key holder produces for `who` on deployment d
eth_sign(d, secret, who) ==
    sign(secret, keccak_256(eip712_signable_message(d, who)))


\* ------------------------------------------------------------ native ids

\* T::OriginAddressMapping::into_account_id: the account the host derives
\* from an EVM address alone (an injective embedding of the address)
OriginAddressMapping_into_account_id(address) == <<"evm:", address, "padded">>

RealAddresses == {eth_address(k) : k \in Keys}

\* the origins that submit claims: the users, and the account derived from
\* the address of key 1 (nothing in claim_account tells the two kinds apart)
Callers == Users \cup {OriginAddressMapping_into_account_id(eth_address(1))}

\* the accounts the ledger moves funds between
Holders == Users \cup {OriginAddressMapping_into_account_id(a) : a \in RealAddresses}

\* --------------------------------------------------------------- the inputs

Malformed == [d |-> None, secret |-> 0, who |-> None]

\* the deployments that differ from d in the chain id alone or in the genesis
\* hash alone
Neighbours(d) ==
    {e \in Deployments : e # d /\ (e.chain_id = d.chain_id \/ e.genesis_hash = d.genesis_hash)}

\* the signing acts behind the signatures submitted on deployment d: every
\* key holder signs for every caller on d, key 1 signs for user 1 on the
\* neighbouring deployments, and one signature is malformed
Signings(d) ==
    {[d |-> d, secret |-> k, who |-> w] : k \in Keys, w \in Callers}
    \cup {[d |-> e, secret |-> 1, who |-> <<"user", 1>>] : e \in Neighbours(d)}
    \cup {Malformed}

\* keccak_256 of the signable message of every caller on every deployment,
\* tabulated
SignableHash ==
    [x \in Deployments \X Callers |-> keccak_256(eip712_signable_message(x[1], x[2]))]
    @@ <<>>

verify_eip712_signature(d, who, sig) ==
    LET msg_hash == SignableHash[<<d, who>>]
    IN  recover_signer(sig, msg_hash)

\* the 65 bytes a signing act yields: eth_sign(secret, who) run on deployment d
signature_of(signing) ==
    IF signing = Malformed THEN BadSig
    ELSE sign(signing.secret, SignableHash[<<signing.d, signing.who>>])

\* the address recovery yields on deployment d when user 2 submits the
\* signature key 1 made for user 1: an address no key holder owns
StrayAddress(d) ==
    verify_eip712_signature(d, <<"user", 2>>,
        signature_of([d |-> d, secret |-> 1, who |-> <<"user", 1>>]))[2]

\* the signing acts, and the addresses, submitted on each deployment, tabulated
Submitted ==
    [d \in Deployments |->
        [signings  |-> Signings(d),
         addresses |-> RealAddresses \cup {StrayAddress(d)}]]
    @@ <<>>

\* ------------------------------------------------------------------ state

VARIABLES
    deployment,     \* [chain_id, genesis_hash] of this chain (T::ChainId, block_hash(0))
    Accounts,       \* storage map EvmAddress -> AccountId
    EvmAddresses,   \* storage map AccountId -> EvmAddress
    balances,       \* the ledger: free balance of every existing account
    last            \* the outcome of the last call: its result, the events it
                    \* deposited, the accounts killed and the pairs unlinked in it

vars == <<deployment, Accounts, EvmAddresses, balances, last>>

\* the empty storage map
EmptyMap == [k \in {} |-> None]

\* StorageMap::insert
insert(map, key, value) ==
    [k \in DOMAIN map \cup {key} |-> IF k = key THEN value ELSE map[k]]

\* StorageMap::remove
remove(map, key) == [k \in DOMAIN map \ {key} |-> map[k]]

\* the storage a call runs on; events are those the call deposits, killed the
\* accounts the ledger reaps during it, unlinked the pairs the hook removes
Storage ==
    [Accounts |-> Accounts, EvmAddresses |-> EvmAddresses,
     balances |-> balances, events |-> <<>>, killed |-> {}, unlinked |-> {}]

Ok == "Ok"

\* ------------------------------------------------------------ lifecycle hook

\* on_killed_account emptying both maps when `who` is mapped
on_killed_account_clears_all(s, who) ==
    IF who \in DOMAIN s.EvmAddresses
    THEN [s EXCEPT !.Accounts = EmptyMap,
                   !.EvmAddresses = EmptyMap,
                   !.unlinked = s.unlinked \cup {<<who, s.EvmAddresses[who]>>}]
    ELSE s

\* on_killed_account removing the Accounts entry alone
on_killed_account_forward_only(s, who) ==
    IF who \in DOMAIN s.EvmAddresses
    THEN LET evm_addr == s.EvmAddresses[who]
         IN  [s EXCEPT !.Accounts = remove(s.Accounts, evm_addr),
                       !.unlinked = s.unlinked \cup {<<who, evm_addr>>}]
    ELSE s

\* on_killed_account removing the EvmAddresses entry alone
on_killed_account_reverse_only(s, who) ==
    IF who \in DOMAIN s.EvmAddresses
    THEN LET evm_addr == s.EvmAddresses[who]
         IN  [s EXCEPT !.EvmAddresses = remove(s.EvmAddresses, who),
                       !.unlinked = s.unlinked \cup {<<who, evm_addr>>}]
    ELSE s

\* CallKillEVMLinkAccount::on_killed_account
on_killed_account(s, who) ==
    IF who \in DOMAIN s.EvmAddresses
    THEN LET evm_addr == s.EvmAddresses[who]
         IN  [s EXCEPT !.Accounts = remove(s.Accounts, evm_addr),
                       !.EvmAddresses = remove(s.EvmAddresses, who),
                       !.unlinked = s.unlinked \cup {<<who, evm_addr>>}]
    ELSE s

\* ------------------------------------------------------------------ ledger

\* frame_system::Pallet::account_exists
account_exists(s, who) == who \in DOMAIN s.balances

\* Currency::reducible_balance(who, keep_alive = false)
reducible_balance(s, who) == s.balances[who]

\* an account reaped without the OnKilledAccount hook
kill_account_without_hook(s, who) ==
    [s EXCEPT !.balances = remove(s.balances, who),
              !.killed = s.killed \cup {who}]

\* frame_system reaping an account: it leaves the ledger and the
\* OnKilledAccount hook runs on it
kill_account(s, who) ==
    LET t == on_killed_account(s, who)
    IN  [t EXCEPT !.balances = remove(t.balances, who),
                  !.killed = t.killed \cup {who}]

\* the choices the ledger makes on its own: whether it accepts a transfer,
\* and whether an emptied account is reaped or kept alive by other references
LedgerChoices == [accepts : BOOLEAN, reaps : BOOLEAN]

\* Currency::transfer(source, dest, value, ExistenceRequirement::AllowDeath):
\* [res, s]
Currency_transfer(s, source, dest, value, ledger) ==
    IF value = 0 \/ source = dest THEN [res |-> Ok, s |-> s]
    ELSE IF ~ledger.accepts THEN [res |-> "TransferError", s |-> s]
    ELSE LET credited == IF dest \in DOMAIN s.balances
                         THEN s.balances[dest] + value ELSE value
             moved == [insert(s.balances, dest, credited)
                          EXCEPT ![source] = s.balances[source] - value]
             t == [s EXCEPT !.balances = moved]
         IN  [res |-> Ok,
              s   |-> IF moved[source] = 0 /\ ledger.reaps
                      THEN kill_account(t, source) ELSE t]

\* ------------------------------------------------------------ query surface

\* EVMAddressToAccountId::convert, behind into_account_id and get_account_id
get_account_id(s, address) ==
    IF address \in DOMAIN s.Accounts THEN s.Accounts[address]
    ELSE OriginAddressMapping_into_account_id(address)

\* AccountIdToEVMAddress::convert, behind get_evm_address
get_evm_address(s, account_id) ==
    IF account_id \in DOMAIN s.EvmAddresses THEN Some(s.EvmAddresses[account_id])
    ELSE None

\* is_linked answered from the Accounts side, fallback included
is_linked_by_account(s, account_id, evm) == get_account_id(s, evm) = account_id

\* lines 280-282
is_linked(s, account_id, evm) == get_evm_address(s, account_id) = Some(evm)

\* ------------------------------------------------------------ claim protocol

\* claim_account without the merge
merge_balance_skipped(s, who, eth_addr, ledger) == [res |-> Ok, s |-> s]

\* the merge taking the funds of the derived account without crediting `who`
merge_balance_burn(s, who, eth_addr, ledger) ==
    LET account_id == OriginAddressMapping_into_account_id(eth_addr)
    IN  IF account_exists(s, account_id)
        THEN [res |-> Ok, s |-> [s EXCEPT !.balances = remove(s.balances, account_id)]]
        ELSE [res |-> Ok, s |-> s]

\* lines 162-167: merge balance from the address's own account into `who`
merge_balance(s, who, eth_addr, ledger) ==
    LET account_id == OriginAddressMapping_into_account_id(eth_addr)
    IN  IF account_exists(s, account_id)
        THEN Currency_transfer(s, account_id, who,
                               reducible_balance(s, account_id), ledger)
        ELSE [res |-> Ok, s |-> s]

\* the EvmAddresses insert without the Accounts insert
insert_mapping_reverse_only(s, who, eth_addr) ==
    [s EXCEPT !.EvmAddresses = insert(s.EvmAddresses, who, eth_addr)]

\* the Accounts insert without the EvmAddresses insert
insert_mapping_forward_only(s, who, eth_addr) ==
    [s EXCEPT !.Accounts = insert(s.Accounts, eth_addr, who)]

\* lines 169-170
insert_mapping(s, who, eth_addr) ==
    [s EXCEPT !.Accounts = insert(s.Accounts, eth_addr, who),
              !.EvmAddresses = insert(s.EvmAddresses, who, eth_addr)]

\* Event::ClaimAccount; committed tells whether both map entries of the pair
\* were in storage when the event was deposited
ClaimAccount(s, account_id, evm_address) ==
    [account_id |-> account_id, evm_address |-> evm_address,
     committed |-> /\ is_linked(s, account_id, evm_address)
                   /\ evm_address \in DOMAIN s.Accounts
                   /\ s.Accounts[evm_address] = account_id]

\* Pallet::deposit_event
deposit_event(s, event) == [s EXCEPT !.events = Append(s.events, event)]

\* the event deposited before the inserts
commit_claim_event_first(s, who, eth_addr) ==
    insert_mapping(deposit_event(s, ClaimAccount(s, who, eth_addr)), who, eth_addr)

\* lines 169-172: both inserts, then the event
commit_claim(s, who, eth_addr) ==
    LET t == insert_mapping(s, who, eth_addr)
    IN  deposit_event(t, ClaimAccount(t, who, eth_addr))

\* the two ensure! lines without the first one
ensure_not_mapped_address_only(s, who, eth_addr) ==
    IF eth_addr \in DOMAIN s.Accounts THEN "EthAddressHasMapped" ELSE Ok

\* the two ensure! lines without the second one
ensure_not_mapped_id_only(s, who, eth_addr) ==
    IF who \in DOMAIN s.EvmAddresses THEN "AccountIdHasMapped" ELSE Ok

\* the two ensure! lines in the other order
ensure_not_mapped_swapped(s, who, eth_addr) ==
    IF eth_addr \in DOMAIN s.Accounts THEN "EthAddressHasMapped"
    ELSE IF who \in DOMAIN s.EvmAddresses THEN "AccountIdHasMapped"
    ELSE Ok

\* lines 153-155: ensure account_id and eth_address has not been mapped
ensure_not_mapped(s, who, eth_addr) ==
    IF who \in DOMAIN s.EvmAddresses THEN "AccountIdHasMapped"
    ELSE IF eth_addr \in DOMAIN s.Accounts THEN "EthAddressHasMapped"
    ELSE Ok

\* the signature check without the comparison with eth_address
ensure_signature_any_signer(d, who, eth_addr, eth_signature) ==
    IF verify_eip712_signature(d, who, eth_signature) = None
    THEN "BadSignature" ELSE Ok

\* lines 157-160: recover evm address from signature and compare
ensure_signature(d, who, eth_addr, eth_signature) ==
    LET address == verify_eip712_signature(d, who, eth_signature)
    IN  IF address = None THEN "BadSignature"
        ELSE IF eth_addr # address[2] THEN "InvalidSignature"
        ELSE Ok

\* the body of claim_account with the signature checked before the maps
claim_account_body_signature_first(s, d, who, eth_addr, eth_signature, ledger) ==
    LET signed == ensure_signature(d, who, eth_addr, eth_signature)
    IN  IF signed # Ok THEN [res |-> signed, s |-> s]
        ELSE LET mapped == ensure_not_mapped(s, who, eth_addr)
             IN  IF mapped # Ok THEN [res |-> mapped, s |-> s]
                 ELSE LET m == merge_balance(s, who, eth_addr, ledger)
                      IN  IF m.res # Ok THEN m
                          ELSE [res |-> Ok, s |-> commit_claim(m.s, who, eth_addr)]

\* the body of claim_account: [res, s], s being the storage as the body left it
claim_account_body(s, d, who, eth_addr, eth_signature, ledger) ==
    LET mapped == ensure_not_mapped(s, who, eth_addr)
    IN  IF mapped # Ok THEN [res |-> mapped, s |-> s]
        ELSE LET signed == ensure_signature(d, who, eth_addr, eth_signature)
             IN  IF signed # Ok THEN [res |-> signed, s |-> s]
                 ELSE LET m == merge_balance(s, who, eth_addr, ledger)
                      IN  IF m.res # Ok THEN m
                          ELSE [res |-> Ok, s |-> commit_claim(m.s, who, eth_addr)]

\* #[transactional]: the storage is the body's on Ok and untouched on an error
transactional(s, r) == IF r.res = Ok THEN r ELSE [res |-> r.res, s |-> s]

\* claim_account writing the maps before the merge, and without #[transactional]
claim_account_call_eager(s, d, who, eth_addr, eth_signature, ledger) ==
    LET r == claim_account_body(s, d, who, eth_addr, eth_signature, ledger)
    IN  IF r.res = "TransferError"
        THEN [res |-> r.res, s |-> insert_mapping(s, who, eth_addr)]
        ELSE r

\* claim_account run on storage s of deployment d: [res, s]
claim_account_call(s, d, who, eth_addr, eth_signature, ledger) ==
    transactional(s, claim_account_body(s, d, who, eth_addr, eth_signature, ledger))

\* what claim_account(Signed(who), eth_addr, the bytes of `signing`) returns
\* and leaves in the current state
ClaimResult(who, eth_addr, signing, ledger) ==
    claim_account_call(Storage, deployment, who, eth_addr,
                       signature_of(signing), ledger)

\* the extrinsic claim_account(origin = Signed(who), eth_address, eth_signature),
\* eth_signature being the bytes of the signing act `signing`
claim_account(who, eth_addr, signing, ledger) ==
    /\ LET r == ClaimResult(who, eth_addr, signing, ledger)
       IN  /\ Accounts' = r.s.Accounts
           /\ EvmAddresses' = r.s.EvmAddresses
           /\ balances' = r.s.balances
           /\ last' = [op |-> "claim_account", res |-> r.res, events |-> r.s.events,
                       killed |-> r.s.killed, unlinked |-> r.s.unlinked]
    /\ UNCHANGED deployment

\* what a transfer made by the rest of the runtime returns and leaves in the
\* current state
TransferResult(source, dest, value, ledger) ==
    Currency_transfer(Storage, source, dest, value, ledger)

\* a transfer between two accounts made by the rest of the runtime
Transfer(source, dest, value, ledger) ==
    /\ source \in DOMAIN balances
    /\ source # dest
    /\ value \in 1..balances[source]
    /\ LET r == TransferResult(source, dest, value, ledger)
       IN  /\ r.res = Ok
           /\ Accounts' = r.s.Accounts
           /\ EvmAddresses' = r.s.EvmAddresses
           /\ balances' = r.s.balances
           /\ last' = [op |-> "transfer", res |-> r.res, events |-> r.s.events,
                       killed |-> r.s.killed, unlinked |-> r.s.unlinked]
    /\ UNCHANGED deployment

\* the three queries of EVMAddressMapping, each answered as a value
QueryAnswer(s, query, account_id, address) ==
    CASE query = "get_account_id"  -> get_account_id(s, address)
      [] query = "get_evm_address" -> get_evm_address(s, account_id)
      [] query = "is_linked"       -> is_linked(s, account_id, address)

Queries == {"get_account_id", "get_evm_address", "is_linked"}

\* a query made by the rest of the runtime: it takes references and returns
\* its answer, and writes nothing
Query(query, account_id, address) ==
    /\ query \in Queries
    /\ last' = [op |-> "query", res |-> Ok, events |-> <<>>, killed |-> {},
                unlinked |-> {}]
    /\ UNCHANGED <<deployment, Accounts, EvmAddresses, balances>>

\* ---------------------------------------------------------- specifications

NoCall == [op |-> "none", res |-> Ok, events |-> <<>>, killed |-> {},
           unlinked |-> {}]

Init ==
    /\ deployment = [chain_id |-> 1, genesis_hash |-> <<"genesis", 0>>]
    /\ Accounts = EmptyMap
    /\ EvmAddresses = EmptyMap
    /\ balances = [u \in Users |-> InitialBalance]
    /\ last = NoCall

\* the ledger's choices that can make a difference to a transfer out of
\* `source`: one when there is nothing to move
ChoicesFor(source) ==
    IF source \in DOMAIN balances /\ balances[source] > 0
    THEN LedgerChoices ELSE {[accepts |-> TRUE, reaps |-> TRUE]}

Next ==
    \/ \E who \in Callers, eth_addr \in Submitted[deployment].addresses,
          signing \in Submitted[deployment].signings :
         \E ledger \in ChoicesFor(OriginAddressMapping_into_account_id(eth_addr)) :
            claim_account(who, eth_addr, signing, ledger)
    \/ \E source \in DOMAIN balances, dest \in Holders :
         \E value \in 1..balances[source], reaps \in BOOLEAN :
            Transfer(source, dest, value, [accepts |-> TRUE, reaps |-> reaps])
    \/ \E query \in Queries, account_id \in Holders \cup Callers,
          address \in Submitted[deployment].addresses :
            Query(query, account_id, address)

Spec == Init /\ [][Next]_vars

\* ------------------------------------------------------------- properties

\* the claims submitted in the current state: origin, address, signing act
\* and the ledger's choices
ClaimInputs ==
    Callers \X Submitted[deployment].addresses \X Submitted[deployment].signings
            \X LedgerChoices

Result(in) == ClaimResult(in[1], in[2], in[3], in[4])

\* C1: bijectivity (I1): in every reachable state Accounts[addr] = id holds if
\* and only if EvmAddresses[id] = addr holds, for every address and native id.
C1_Bijective ==
    /\ \A addr \in DOMAIN Accounts :
          /\ Accounts[addr] \in DOMAIN EvmAddresses
          /\ EvmAddresses[Accounts[addr]] = addr
    /\ \A id \in DOMAIN EvmAddresses :
          /\ EvmAddresses[id] \in DOMAIN Accounts
          /\ Accounts[EvmAddresses[id]] = id

\* a hook invocation has removed one pair while another pair is still mapped
C1_Witness == last.unlinked # {} /\ DOMAIN Accounts # {}

\* C2: one claim per identity and per address (I2, I3): no native id is the
\* value of two distinct keys of Accounts, and no address is the value of two
\* distinct keys of EvmAddresses.
C2_OneClaim ==
    /\ \A a1 \in DOMAIN Accounts, a2 \in DOMAIN Accounts :
          Accounts[a1] = Accounts[a2] => a1 = a2
    /\ \A i1 \in DOMAIN EvmAddresses, i2 \in DOMAIN EvmAddresses :
          EvmAddresses[i1] = EvmAddresses[i2] => i1 = i2

\* a claim has just succeeded beside two pairs already mapped
C2_Witness ==
    /\ last.op = "claim_account" /\ last.res = Ok
    /\ Cardinality(DOMAIN Accounts) = 3
    /\ Cardinality(DOMAIN EvmAddresses) = 3

\* C3: for every successful claim(id, addr), in the state it leaves
\* get_evm_address(id) is Some(addr) and get_account_id(addr) is id.
C3_ClaimResolves ==
    \A in \in ClaimInputs :
        LET r == Result(in)
        IN  r.res = Ok =>
              /\ get_evm_address(r.s, in[1]) = Some(in[2])
              /\ get_account_id(r.s, in[2]) = in[1]

\* user 1, unmapped, has just claimed the address of key 1, for which no
\* account existed, and both queries resolve the pair
C3_Witness ==
    /\ last.op = "claim_account" /\ last.res = Ok /\ last.killed = {}
    /\ Len(last.events) = 1
    /\ last.events[1].account_id = <<"user", 1>>
    /\ last.events[1].evm_address = eth_address(1)
    /\ OriginAddressMapping_into_account_id(eth_address(1)) \notin DOMAIN balances
    /\ get_evm_address(Storage, <<"user", 1>>) = Some(eth_address(1))
    /\ get_account_id(Storage, eth_address(1)) = <<"user", 1>>

\* C4 as stated: while (id, addr) is mapped, a claim by id fails with
\* AccountIdHasMapped whatever the address, and a claim of addr by any other
\* id fails with EthAddressHasMapped.
C4_Original ==
    \A in \in ClaimInputs :
        LET r == Result(in)
        IN  /\ in[1] \in DOMAIN EvmAddresses => r.res = "AccountIdHasMapped"
            /\ (in[2] \in DOMAIN Accounts /\ Accounts[in[2]] # in[1])
                  => r.res = "EthAddressHasMapped"

\* C4 amended: while (id, addr) is mapped, a claim by id fails with
\* AccountIdHasMapped whatever the address, and a claim of addr by an id that
\* has no mapping of its own fails with EthAddressHasMapped.
C4_SecondClaim ==
    \A in \in ClaimInputs :
        LET r == Result(in)
        IN  /\ in[1] \in DOMAIN EvmAddresses => r.res = "AccountIdHasMapped"
            /\ (in[2] \in DOMAIN Accounts /\ in[1] \notin DOMAIN EvmAddresses)
                  => r.res = "EthAddressHasMapped"

\* a claim of a mapped address has just been rejected
C4_Witness ==
    /\ last.op = "claim_account" /\ last.res = "EthAddressHasMapped"
    /\ DOMAIN Accounts # {}

\* C5: all-or-nothing: a claim that returns an error (AccountIdHasMapped,
\* EthAddressHasMapped, BadSignature, InvalidSignature or the ledger's
\* TransferError) leaves both maps and every balance as they were, kills no
\* account and deposits no event.
C5_AllOrNothing ==
    \A in \in ClaimInputs :
        LET r == Result(in)
        IN  /\ r.res \in {Ok, "AccountIdHasMapped", "EthAddressHasMapped",
                          "BadSignature", "InvalidSignature", "TransferError"}
            /\ r.res # Ok =>
                  /\ r.s.Accounts = Accounts
                  /\ r.s.EvmAddresses = EvmAddresses
                  /\ r.s.balances = balances
                  /\ r.s.events = <<>>
                  /\ r.s.killed = {}

\* a claim has just failed in the merge, after every check had passed, with a
\* pair mapped and the balances in place
C5_Witness ==
    /\ last.op = "claim_account" /\ last.res = "TransferError"
    /\ last.events = <<>>
    /\ DOMAIN Accounts # {}

\* a signature made over signableMessage(V) for an identity V other than `who`
SignedForAnother(signing, who) == signing # Malformed /\ signing.who # who

\* the address claim_account recovers from the bytes of `signing` when `who`
\* submits them here: Some(address), or None
Recovered(who, signing) ==
    verify_eip712_signature(deployment, who, signature_of(signing))

\* C6 as stated: a claim by U with a signature made over signableMessage(V),
\* V # U, is never accepted, whichever address is claimed and whichever key
\* signed.
C6_Original ==
    [][\A in \in ClaimInputs :
          (SignedForAnother(in[3], in[1]) /\ claim_account(in[1], in[2], in[3], in[4]))
             => last'.res # Ok]_vars

\* C6 amended: recovery of such a signature under signableMessage(U) succeeds
\* and yields an address that is no key holder's; a claim of any other
\* address, the signer's included, fails with InvalidSignature or
\* BadSignature (or, before that, with one of the two uniqueness errors) and
\* maps nothing to U.
C6_SignatureBinding ==
    \A in \in ClaimInputs :
        SignedForAnother(in[3], in[1]) =>
            LET r == Result(in)
                address == Recovered(in[1], in[3])
            IN  /\ address # None
                /\ address[2] \notin RealAddresses
                /\ in[2] # address[2] =>
                      /\ r.res \in {"InvalidSignature", "BadSignature",
                                    "AccountIdHasMapped", "EthAddressHasMapped"}
                      /\ r.s.EvmAddresses = EvmAddresses
                /\ (in[2] # address[2] /\ ensure_not_mapped(Storage, in[1], in[2]) = Ok)
                      => r.res \in {"InvalidSignature", "BadSignature"}

\* a claim has just been rejected with InvalidSignature, and in this state an
\* unmapped caller submitting the signature key 1 made for another identity
\* cannot claim the address of key 1
C6_Witness ==
    /\ last.op = "claim_account" /\ last.res = "InvalidSignature"
    /\ \E in \in ClaimInputs :
          /\ SignedForAnother(in[3], in[1])
          /\ in[3].secret = 1 /\ in[2] = eth_address(1)
          /\ Result(in).res = "InvalidSignature"

\* C7 as stated: when the account derived from addr exists with a balance
\* B > 0, a successful claim(id, addr) raises the balance of id by exactly B
\* and leaves none of it in the derived account.
C7_Original ==
    [][\A in \in ClaimInputs :
          LET shadow == OriginAddressMapping_into_account_id(in[2])
          IN  ( /\ claim_account(in[1], in[2], in[3], in[4])
                /\ last'.res = Ok
                /\ shadow \in DOMAIN balances
                /\ balances[shadow] > 0 )
              => /\ in[1] \in DOMAIN balances'
                 /\ balances'[in[1]] =
                      (IF in[1] \in DOMAIN balances THEN balances[in[1]] ELSE 0)
                      + balances[shadow]
                 /\ (shadow \in DOMAIN balances' => balances'[shadow] = 0)]_vars

\* C7 amended: the same, provided id is not itself the account derived from
\* addr; when it is, the claim moves nothing and every balance stays.
C7_FundsMigration ==
    \A in \in ClaimInputs :
        LET r == Result(in)
            shadow == OriginAddressMapping_into_account_id(in[2])
        IN  (r.res = Ok /\ shadow \in DOMAIN balances /\ balances[shadow] > 0) =>
              IF in[1] = shadow
              THEN r.s.balances = balances
              ELSE /\ in[1] \in DOMAIN r.s.balances
                   /\ r.s.balances[in[1]] =
                        (IF in[1] \in DOMAIN balances THEN balances[in[1]] ELSE 0)
                        + balances[shadow]
                   /\ (shadow \in DOMAIN r.s.balances => r.s.balances[shadow] = 0)

\* a successful claim has just emptied the derived account, which was reaped,
\* into a claimer that holds more than it started with
C7_Witness ==
    /\ last.op = "claim_account" /\ last.res = Ok
    /\ last.killed = {OriginAddressMapping_into_account_id(last.events[1].evm_address)}
    /\ last.events[1].account_id \in Users
    /\ balances[last.events[1].account_id] > InitialBalance

\* the queries on the state a call leaves
AfterCall == Storage'

C9_Notification ==
    /\ \A in \in ClaimInputs :
          LET r == Result(in)
          IN  r.s.events =
                IF r.res = Ok
                THEN << [account_id |-> in[1], evm_address |-> in[2],
                         committed |-> TRUE] >>
                ELSE << >>
    /\ last.op = "claim_account" => Len(last.events) = (IF last.res = Ok THEN 1 ELSE 0)
    /\ last.op # "claim_account" => last.events = << >>

\* a successful claim has just deposited its one event, after the inserts
C9_Witness ==
    /\ last.op = "claim_account" /\ last.res = Ok
    /\ Len(last.events) = 1
    /\ last.events[1].committed
    /\ is_linked(Storage, last.events[1].account_id, last.events[1].evm_address)

\* every signing act of the model, whatever the deployment it is submitted on
AllSignings == UNION {Signings(d) : d \in Deployments}

\* C10: two deployments that differ in chainId or in genesisBlockHash have
\* different domain separators, the address recovered from a signature for the
\* same identity differs between them, and a signature accepted for
\* claim(id, addr) on another deployment is rejected here, with
\* InvalidSignature once the two uniqueness checks have passed.
C10_DomainSeparation ==
    /\ \A d1 \in Deployments, d2 \in Deployments :
          d1 # d2 =>
            /\ evm_account_domain_separator(d1) # evm_account_domain_separator(d2)
            /\ \A who \in Callers, signing \in AllSignings \ {Malformed} :
                  verify_eip712_signature(d1, who, signature_of(signing))
                    # verify_eip712_signature(d2, who, signature_of(signing))
    /\ \A in \in ClaimInputs :
          ( /\ in[3] # Malformed
            /\ in[3].d # deployment
            /\ verify_eip712_signature(in[3].d, in[1], signature_of(in[3]))
                  = Some(in[2]) )
          => /\ Result(in).res \in {"InvalidSignature", "AccountIdHasMapped",
                                    "EthAddressHasMapped"}
             /\ ensure_not_mapped(Storage, in[1], in[2]) = Ok
                   => Result(in).res = "InvalidSignature"

\* a claim has just been rejected with InvalidSignature, and in this state the
\* replay of a signature that another deployment accepts for the same claim,
\* by an unmapped caller for an unmapped address, is rejected with it
C10_Witness ==
    /\ last.op = "claim_account" /\ last.res = "InvalidSignature"
    /\ \E in \in ClaimInputs :
          /\ in[3] # Malformed
          /\ in[3].d # deployment
          /\ verify_eip712_signature(in[3].d, in[1], signature_of(in[3])) = Some(in[2])
          /\ Result(in).res = "InvalidSignature"

\* the native ids and the addresses the queries are asked about
QueriedIds == Holders \cup Callers

QueriedAddresses == Submitted[deployment].addresses

Authorized(in) ==
    /\ ensure_not_mapped(Storage, in[1], in[2]) = Ok
    /\ ensure_signature(deployment, in[1], in[2], signature_of(in[3])) = Ok

\* the storage the funds-migration step of the claim `in` leaves: [res, s]
Migrated(in) == merge_balance(Storage, in[1], in[2], in[4])

\* a map without the entries of the given keys
Without(map, keys) == [k \in DOMAIN map \ keys |-> map[k]]

\* C12 as stated: no step of a claim before the final insertion modifies
\* Accounts or EvmAddresses, the funds migration included, and the only change
\* a claim(id, addr) makes to the two maps is adding the pair (id, addr).
C12_Original ==
    [][\A in \in ClaimInputs :
          claim_account(in[1], in[2], in[3], in[4]) =>
             /\ Authorized(in) =>
                   /\ Migrated(in).s.Accounts = Accounts
                   /\ Migrated(in).s.EvmAddresses = EvmAddresses
             /\ last'.res = Ok =>
                   /\ Accounts' = insert(Accounts, in[2], in[1])
                   /\ EvmAddresses' = insert(EvmAddresses, in[1], in[2])
             /\ last'.res # Ok =>
                   UNCHANGED <<Accounts, EvmAddresses>>]_vars

\* the accounts whose pair leaves the maps during the claim that produced the
\* storage s: the derived account of the claimed address, when the migration
\* closed it and it held a mapping of its own
Closed(in, s) ==
    {a \in {OriginAddressMapping_into_account_id(in[2])} :
        a \in s.killed /\ a \in DOMAIN EvmAddresses}

\* C12 amended: before the final insertion a claim(id, addr) modifies the maps
\* in one case only: when the funds migration closes the account derived from
\* addr and that account holds a mapping of its own, the lifecycle hook removes
\* that account's pair. The changes a successful claim makes to the maps are
\* that removal and the addition of (id, addr); a rejected claim makes none.
C12_CommitOnly ==
    \A in \in ClaimInputs :
        LET r == Result(in)
            gone == Closed(in, r.s)
            freed == {EvmAddresses[a] : a \in gone}
        IN  /\ Authorized(in) =>
                LET m == Migrated(in)
                    closed == Closed(in, m.s)
                IN  /\ m.s.killed \subseteq {OriginAddressMapping_into_account_id(in[2])}
                    /\ m.s.EvmAddresses = Without(EvmAddresses, closed)
                    /\ m.s.Accounts = Without(Accounts, {EvmAddresses[a] : a \in closed})
            /\ r.res = Ok =>
                /\ r.s.EvmAddresses = insert(Without(EvmAddresses, gone), in[1], in[2])
                /\ r.s.Accounts = insert(Without(Accounts, freed), in[2], in[1])
            /\ r.res # Ok =>
                /\ r.s.EvmAddresses = EvmAddresses
                /\ r.s.Accounts = Accounts

\* a successful claim has just closed the derived account of its address,
\* which held a mapping: the hook removed that pair, and the claimed pair is
\* in the maps
C12_Witness ==
    /\ last.op = "claim_account" /\ last.res = Ok
    /\ last.unlinked # {}
    /\ \A pair \in last.unlinked :
          /\ pair[1] = OriginAddressMapping_into_account_id(last.events[1].evm_address)
          /\ pair[1] \notin DOMAIN EvmAddresses
    /\ is_linked(Storage, last.events[1].account_id, last.events[1].evm_address)

\* the pair (id, addr) is in both maps of the storage s
Present(s, id, addr) ==
    /\ id \in DOMAIN s.EvmAddresses /\ s.EvmAddresses[id] = addr
    /\ addr \in DOMAIN s.Accounts /\ s.Accounts[addr] = id

C14_Acceptance ==
    \A in \in ClaimInputs :
        LET r == Result(in)
            address == Recovered(in[1], in[3])
            unmapped == in[1] \notin DOMAIN EvmAddresses /\ in[2] \notin DOMAIN Accounts
        IN  /\ r.res = Ok <=>
                  /\ unmapped
                  /\ address = Some(in[2])
                  /\ Migrated(in).res = Ok
            /\ (unmapped /\ address = None) => r.res = "BadSignature"
            /\ (unmapped /\ address # None /\ address[2] # in[2])
                  => r.res = "InvalidSignature"

\* a claim has just been accepted, and in this state one claim meets the four
\* conditions, one fails recovery and one recovers another address
C14_Witness ==
    /\ last.op = "claim_account" /\ last.res = Ok
    /\ \E in \in ClaimInputs :
          /\ Authorized(in) /\ Migrated(in).res = Ok /\ Result(in).res = Ok
    /\ \E in \in ClaimInputs : Result(in).res = "BadSignature"
    /\ \E in \in ClaimInputs : Result(in).res = "InvalidSignature"

\* the outcome of the first failing check of the claim `in`, in the order
\* caller mapped, address mapped, recovery, comparison, funds migration
FirstFailure(in) ==
    LET address == Recovered(in[1], in[3])
    IN  IF in[1] \in DOMAIN EvmAddresses THEN "AccountIdHasMapped"
        ELSE IF in[2] \in DOMAIN Accounts THEN "EthAddressHasMapped"
        ELSE IF address = None THEN "BadSignature"
        ELSE IF address[2] # in[2] THEN "InvalidSignature"
        ELSE IF Migrated(in).res # Ok THEN "TransferError"
        ELSE Ok

\* C15: a claim returns exactly one outcome among success, AccountIdHasMapped,
\* EthAddressHasMapped, BadSignature, InvalidSignature and TransferError: the
\* error of the first failing check in the order caller mapped, address
\* mapped, signature recovery, address comparison, funds migration.
C15_CheckOrder ==
    \A in \in ClaimInputs :
        /\ Result(in).res \in {Ok, "AccountIdHasMapped", "EthAddressHasMapped",
                               "BadSignature", "InvalidSignature", "TransferError"}
        /\ Result(in).res = FirstFailure(in)

\* a claim has just been rejected with AccountIdHasMapped, and in this state a
\* mapped caller claiming a mapped address gets AccountIdHasMapped while an
\* unmapped caller claiming a mapped address with a malformed signature gets
\* EthAddressHasMapped
C15_Witness ==
    /\ last.op = "claim_account" /\ last.res = "AccountIdHasMapped"
    /\ \E in \in ClaimInputs :
          /\ in[1] \in DOMAIN EvmAddresses /\ in[2] \in DOMAIN Accounts
          /\ Result(in).res = "AccountIdHasMapped"
    /\ \E in \in ClaimInputs :
          /\ in[1] \notin DOMAIN EvmAddresses /\ in[2] \in DOMAIN Accounts
          /\ in[3] = Malformed
          /\ Result(in).res = "EthAddressHasMapped"

\* the claims that would be accepted if made alone in the current state
ValidClaims == {in \in ClaimInputs : Result(in).res = Ok}

\* the storage a finished call hands to the next one
Handed(s) == [s EXCEPT !.events = <<>>, !.killed = {}, !.unlinked = {}]

\* the claim `second` made right after the claim `first`, no other call in
\* between: [res, s]
Then(first, second) ==
    claim_account_call(Handed(Result(first).s), deployment, second[1], second[2],
                       signature_of(second[3]), second[4])

\* C16: of two claims that are each valid alone and that target the same
\* address from different identities, or come from the same identity for
\* different addresses, run one after the other in either order with nothing
\* in between, the first succeeds and the second is rejected, with
\* EthAddressHasMapped in the first case and AccountIdHasMapped in the second;
\* the maps then hold the winner's pair and not the loser's.
C16_RacingClaims ==
    LET valid == ValidClaims
    IN
    \A first \in valid, second \in valid :
        LET won == Result(first)
            lost == Then(first, second)
        IN  /\ (first[2] = second[2] /\ first[1] # second[1]) =>
                  /\ won.res = Ok
                  /\ lost.res = "EthAddressHasMapped"
                  /\ lost.s.Accounts = won.s.Accounts
                  /\ lost.s.EvmAddresses = won.s.EvmAddresses
                  /\ Present(lost.s, first[1], first[2])
                  /\ second[1] \notin DOMAIN lost.s.EvmAddresses
            /\ (first[1] = second[1] /\ first[2] # second[2]) =>
                  /\ won.res = Ok
                  /\ lost.res = "AccountIdHasMapped"
                  /\ lost.s.Accounts = won.s.Accounts
                  /\ lost.s.EvmAddresses = won.s.EvmAddresses
                  /\ Present(lost.s, first[1], first[2])
                  /\ second[2] \notin DOMAIN lost.s.Accounts

\* a claim has just lost a race for an address, and in this state two
\* identities can still race for one address and one identity for two
C16_Witness ==
    /\ last.op = "claim_account" /\ last.res = "EthAddressHasMapped"
    /\ DOMAIN Accounts # {}
    /\ \E first \in ValidClaims, second \in ValidClaims :
          /\ first[2] = second[2] /\ first[1] # second[1]
          /\ Then(first, second).res = "EthAddressHasMapped"
    /\ \E first \in ValidClaims, second \in ValidClaims :
          /\ first[1] = second[1] /\ first[2] # second[2]
          /\ Then(first, second).res = "AccountIdHasMapped"

\* C17: on_killed_account(id) on an identity with no EvmAddresses entry changes
\* neither map and fails in no way; on an identity mapped to addr it removes
\* exactly Accounts[addr] and EvmAddresses[id] and leaves every other entry of
\* both maps as it was.
C17_HookFrame ==
    \A id \in QueriedIds :
        LET t == on_killed_account(Storage, id)
        IN  /\ t.balances = balances
            /\ t.events = << >>
            /\ IF id \in DOMAIN EvmAddresses
               THEN /\ t.EvmAddresses = Without(EvmAddresses, {id})
                    /\ t.Accounts = Without(Accounts, {EvmAddresses[id]})
                    /\ DOMAIN t.Accounts = DOMAIN Accounts \ {EvmAddresses[id]}
               ELSE /\ t.EvmAddresses = EvmAddresses
                    /\ t.Accounts = Accounts

\* the hook has just removed the pair of a reaped identity while the pair of
\* another identity stayed, and in this state it would remove one more pair
\* and is a no-op on an existing account that has no mapping
C17_Witness ==
    /\ \E pair \in last.unlinked :
          /\ pair[1] \in last.killed
          /\ pair[1] \notin DOMAIN EvmAddresses
          /\ pair[2] \notin DOMAIN Accounts
    /\ \E id \in DOMAIN EvmAddresses :
          on_killed_account(Storage, id).Accounts # Accounts
    /\ \E id \in DOMAIN balances \ DOMAIN EvmAddresses :
          on_killed_account(Storage, id).Accounts = Accounts

\* the claim `in` carries a signature that recovers to its address, and its
\* funds migration succeeds
ValidFor(in) ==
    /\ Recovered(in[1], in[3]) = Some(in[2])
    /\ Migrated(in).res = Ok

\* C18: once on_killed_account(id) has removed the pair (id, addr), neither
\* uniqueness check remembers it: id and addr are unmapped, a valid claim of
\* addr by any unmapped identity and a valid claim by id of any unmapped
\* address are accepted and establish the new pair, and in no later state is a
\* claim by an unmapped identity of an unmapped address rejected with
\* AccountIdHasMapped or EthAddressHasMapped.
C18_Reclaim ==
    /\ \A pair \in last.unlinked :
          /\ pair[1] \notin DOMAIN EvmAddresses
          /\ pair[2] \notin DOMAIN Accounts
          /\ \A in \in ClaimInputs :
                ( /\ in[1] = pair[1] \/ in[2] = pair[2]
                  /\ in[1] \notin DOMAIN EvmAddresses
                  /\ in[2] \notin DOMAIN Accounts
                  /\ ValidFor(in) )
                => /\ Result(in).res = Ok
                   /\ Present(Result(in).s, in[1], in[2])
    /\ \A in \in ClaimInputs :
          (in[1] \notin DOMAIN EvmAddresses /\ in[2] \notin DOMAIN Accounts)
             => Result(in).res \notin {"AccountIdHasMapped", "EthAddressHasMapped"}

\* the hook has just removed a pair, and in this state another identity can
\* claim the address of that pair and the identity of that pair can claim
\* another address
C18_Witness ==
    \E pair \in last.unlinked :
        /\ \E in \in ClaimInputs :
              /\ in[2] = pair[2] /\ in[1] # pair[1]
              /\ Result(in).res = Ok
              /\ Present(Result(in).s, in[1], pair[2])
        /\ \E in \in ClaimInputs :
              /\ in[1] = pair[1] /\ in[2] # pair[2]
              /\ Result(in).res = Ok
              /\ Present(Result(in).s, pair[1], in[2])

\* the balance of an account in the ledger b: none when it does not exist
BalanceOf(b, a) == IF a \in DOMAIN b THEN b[a] ELSE 0

RECURSIVE SumOver(_, _)
SumOver(b, accounts) ==
    IF accounts = {} THEN 0
    ELSE LET a == CHOOSE x \in accounts : TRUE
         IN  b[a] + SumOver(b, accounts \ {a})

\* the sum of all account balances of the ledger b
TotalBalance(b) == SumOver(b, DOMAIN b)

\* C19: no claim, accepted or rejected, and no run of the hook changes the sum
\* of all account balances, which is the same in every reachable state; a
\* claim changes at most the balances of the claiming identity and of the
\* account derived from the claimed address, a rejected claim changes none,
\* and when no account exists under the derived id a claim changes no balance.
C19_Conservation ==
    /\ TotalBalance(balances) = Cardinality(Users) * InitialBalance
    /\ \A id \in QueriedIds : on_killed_account(Storage, id).balances = balances
    /\ \A in \in ClaimInputs :
          LET r == Result(in)
              shadow == OriginAddressMapping_into_account_id(in[2])
          IN  /\ TotalBalance(r.s.balances) = TotalBalance(balances)
              /\ \A a \in (DOMAIN balances \cup DOMAIN r.s.balances) \ {in[1], shadow} :
                    /\ a \in DOMAIN balances /\ a \in DOMAIN r.s.balances
                    /\ r.s.balances[a] = balances[a]
              /\ r.res # Ok => r.s.balances = balances
              /\ shadow \notin DOMAIN balances => r.s.balances = balances

\* a successful claim has just moved the funds of the derived account, which
\* the ledger kept alive with nothing in it, to the claimer, and the sum of
\* the balances is what it was at the start
C19_Witness ==
    /\ last.op = "claim_account" /\ last.res = Ok /\ last.killed = {}
    /\ LET shadow == OriginAddressMapping_into_account_id(last.events[1].evm_address)
       IN  /\ shadow \in DOMAIN balances
           /\ balances[shadow] = 0
           /\ shadow # last.events[1].account_id
    /\ BalanceOf(balances, last.events[1].account_id) > 0
    /\ TotalBalance(balances) = Cardinality(Users) * InitialBalance

====
